---- MODULE Spec2Model ----
(***************************************************************************)
(* A model of torch/distributed/_composable/fsdp/_fsdp_param.py: one       *)
(* FSDPParam, its sharded state, the tensor bound on the owning module(s), *)
(* the all-gather output buffers and the size of their storages, the       *)
(* unsharded parameter object, the post-forward replica and the extension  *)
(* data.  Tensors are modelled by their metadata (numel, itemsize) and the *)
(* storage they sit on; a storage is modelled by its size in bytes and by  *)
(* the values of its elements.  The elements of the original parameter are *)
(* numbered 1, 2, ... in row-major order, padding is 0, and a value the    *)
(* model does not know (uninitialised memory, data of an extension) is     *)
(* Unknown.  Objects (nn.Parameter, storages) are modelled by an identity: *)
(* a newly constructed object takes the least identity no live object      *)
(* holds.  The dtype attributes are set by init_dtype_attrs, not by        *)
(* __init__: they do not exist (Unset) before it is called.  The           *)
(* requires_grad flag is not part of this model.                           *)
(***************************************************************************)
EXTENDS Integers, Sequences, FiniteSets, TLC

\* ------------------------------------------------------------------ bounds
\* Largest per-rank all-gather input numel of an extension and largest dim-0
\* size of the original parameter in Spec (where its size is [n, 1]).
MaxNumel == 1
\* Largest shard world size in Spec, and largest post-forward shard world size.
MaxWorld == 2
\* Largest number of all-gather inputs/outputs (extension inputs).
MaxBufs == 2
\* Number of (module, name) aliases sharing the parameter.
NumSharedModules == 1
\* Construction: the largest dim-0 size of the original parameter, the
\* largest size of its second (last) dimension, the largest shard world size.
MaxDim0 == 10
MaxCols == 4
MaxShards == 4
\* Dense: the largest dim-0 size and the largest second dimension of the
\* original parameter.
MaxDenseDim0 == 3
MaxDenseCols == 2

VARIABLES
    cfg,                              \* what __init__ was given (never changes)
    orig_dtype,                       \* self.orig_dtype (Unset: no attribute)
    param_dtype,                      \* self.param_dtype (Unset: no attribute)
    reduce_dtype,                     \* self.reduce_dtype (Unset: no attribute)
    _sharded_param_data,              \* self._sharded_param_data
    sharded_state,                    \* self.sharded_state
    module_params,                    \* module._parameters[param_name], per module
    all_gather_outputs,               \* self.all_gather_outputs
    _unsharded_inner_tensors,         \* self._unsharded_inner_tensors
    _unsharded_param,                 \* self._unsharded_param (Unset: no attribute)
    _sharded_post_forward_param,      \* self._sharded_post_forward_param
    _sharded_post_forward_param_data, \* self._sharded_post_forward_param_data
    _extensions_data,                 \* self._extensions_data
    storage,                          \* untyped storage id -> size in bytes
    memory,                           \* untyped storage id -> values of its elements
    last                              \* the last call: operation, outcome, state before

vars == <<cfg, orig_dtype, param_dtype, reduce_dtype, _sharded_param_data, sharded_state, module_params, all_gather_outputs,
          _unsharded_inner_tensors, _unsharded_param,
          _sharded_post_forward_param, _sharded_post_forward_param_data,
          _extensions_data, storage, memory, last>>

\* ------------------------------------------------------------------ values
ShardedState == {"SHARDED", "SHARDED_POST_FORWARD", "UNSHARDED"}

None == [kind |-> "None"]
Unset == [kind |-> "unset"]
Parameter(i) == [kind |-> "Parameter", id |-> i]

\* torch.dtype: the two dtypes of this model.
bfloat16 == [kind |-> "dtype", name |-> "bfloat16"]
float32 == [kind |-> "dtype", name |-> "float32"]

DTypes == {bfloat16, float32}

itemsize(dtype) == IF dtype = bfloat16 THEN 2 ELSE 4

Min(a, b) == IF a < b THEN a ELSE b

Modules == 0 .. NumSharedModules

\* The parameter's representation: a plain tensor, or one with the
\* fsdp_pre_all_gather / fsdp_post_all_gather pair.  num_inputs is the number
\* of tensors fsdp_pre_all_gather returns; inner says what
\* fsdp_post_all_gather returns as inner tensors: none, the all-gather
\* outputs it was given, or a tensor of its own.
Extensions ==
    {[num_inputs |-> k, inner |-> i] : k \in 1 .. MaxBufs, i \in {"none", "alias", "own"}}

MeshInfos ==
    {mi \in [shard_mesh_size : 1 .. MaxWorld, shard_mesh_rank : 0 .. MaxWorld - 1,
             hsdp : BOOLEAN] : mi.shard_mesh_rank < mi.shard_mesh_size}

\* The shard mesh of mesh_info: its size and this rank's rank in it.
ShardMeshInfos(max_size) ==
    {mi \in [shard_mesh_size : 1 .. max_size, shard_mesh_rank : 0 .. max_size - 1] :
        mi.shard_mesh_rank < mi.shard_mesh_size}

\* The number of elements of a tensor of a two-dimensional size.
numel(size) == size[1] * size[2]

\* The dim-0 size of chunk number rank of torch.chunk(n rows, num_chunks),
\* completed with empty chunks (_chunk_with_empty, _get_dim0_chunked_size).
chunk_dim0_size(n, num_chunks, rank) ==
    LET chunk_size == (n + num_chunks - 1) \div num_chunks
    IN  IF rank * chunk_size >= n THEN 0 ELSE Min(chunk_size, n - rank * chunk_size)

\* _get_dim0_chunked_size(chunks[rank], size): the size of chunk number rank
\* of the size chunked along dimension 0.
chunked_size(size, num_chunks, rank) ==
    <<chunk_dim0_size(size[1], num_chunks, rank)>> \o Tail(size)

\* Mutant: the size of chunk 0 is taken for the sharded size.
sharded_size_of_chunk_0(size, mesh_info) ==
    chunked_size(size, mesh_info.shard_mesh_size, 0)

\* self.sharded_size: the size of this rank's chunk.
sharded_size(size, mesh_info) ==
    chunked_size(size, mesh_info.shard_mesh_size, mesh_info.shard_mesh_rank)

\* Mutant: the shard is not padded, its own size is taken.
padded_size_of_own_chunk(size, mesh_info) ==
    chunked_size(size, mesh_info.shard_mesh_size, mesh_info.shard_mesh_rank)

\* self.padded_sharded_param_size: the size of chunk 0 ("0th always padded").
padded_sharded_param_size(size, mesh_info) ==
    chunked_size(size, mesh_info.shard_mesh_size, 0)

\* self.sharded_post_forward_size
sharded_post_forward_size(size, mesh_info) ==
    chunked_size(size, mesh_info.shard_mesh_size, mesh_info.shard_mesh_rank)

\* _init_extensions: the test for uneven sharding, made on this rank's sizes.
uneven_sharding(size, mesh_info) ==
    padded_sharded_param_size(size, mesh_info) # sharded_size(size, mesh_info)

\* The parameter a construction that returned has left, as far as the
\* operations read it: size is _orig_size, the original parameter being in
\* float32.  A parameter with the hook pair whose own shard is shorter than
\* the padded shard is refused by __init__.  These parameters are followed
\* on rank 0 of their shard mesh and of their post-forward shard mesh, and
\* the DTensor parameters among them are plain tensors; DenseConfigs has the
\* other ranks.
Configs ==
    {c \in [is_dtensor : BOOLEAN,
            ext : {None} \cup Extensions,
            mesh_info : {mi \in ShardMeshInfos(MaxWorld) : mi.shard_mesh_rank = 0},
            post_forward_mesh_info :
                {None} \cup {mi \in MeshInfos : mi.shard_mesh_rank = 0},
            size : {<<n, 1>> : n \in 0 .. MaxNumel}] :
        /\ c.ext # None => ~uneven_sharding(c.size, c.mesh_info)
        /\ c.is_dtensor => c.ext = None}

\* The plain tensor parameters, of larger sizes and on larger meshes, whose
\* post-forward mesh, if any, is an HSDP mesh.
DenseConfigs ==
    [is_dtensor : {FALSE},
     ext : {None},
     mesh_info : ShardMeshInfos(MaxShards),
     post_forward_mesh_info : {None} \cup {mi \in MeshInfos : mi.hsdp},
     size : {<<n, c>> : n \in 0 .. MaxDenseDim0, c \in 1 .. MaxDenseCols}]

_orig_size == cfg.size
orig_numel == numel(_orig_size)
\* self.sharded_param.dtype: the dtype of the original parameter.
sharded_param_dtype == float32

has_fsdp_pre_all_gather == cfg.ext # None
has_fsdp_post_all_gather == cfg.ext # None

\* ------------------------------------------------------------------ objects
LeastNotIn(S) == CHOOSE i \in 1 .. Cardinality(S) + 1 :
                    i \notin S /\ \A j \in 1 .. i - 1 : j \in S

IdsOf(objs) == {o.id : o \in {p \in objs : p.kind = "Parameter"}}

sharded_param == Parameter(0)

LiveParameters ==
    IdsOf({sharded_param, _unsharded_param, _sharded_post_forward_param}
          \cup {module_params[m] : m \in Modules})

Range(s) == {s[i] : i \in DOMAIN s}

\* ------------------------------------------------------------------ the shard
\* A value the model does not know: uninitialised memory (torch.empty, a
\* storage resized up) or data of an extension.
Unknown == -1

\* The values of padded_sharded_param, flattened, on the rank of mesh_info:
\* zeros of the padded size with this rank's chunk copied into its first
\* rows.  The chunks before it are full, so its first element is element
\* rank * (padded numel) + 1 of the original parameter.
padded_sharded_param(size, mesh_info) ==
    LET padded == numel(padded_sharded_param_size(size, mesh_info))
        own == numel(sharded_size(size, mesh_info))
        before == mesh_info.shard_mesh_rank * padded
    IN  [k \in 1 .. padded |-> IF k <= own THEN before + k ELSE 0]

\* The mesh_info of rank r of the shard mesh.
rank_mesh_info(r) == [cfg.mesh_info EXCEPT !.shard_mesh_rank = r]

ShardRanks == 0 .. cfg.mesh_info.shard_mesh_size - 1

\* padded_sharded_param.view(-1): the padded shard as a 1D tensor, on storage 0.
padded_sharded_param_view(size, mesh_info) ==
    [stor |-> 0,
     numel |-> numel(padded_sharded_param_size(size, mesh_info)),
     itemsize |-> itemsize(sharded_param_dtype)]

\* The post-forward replica, when the attribute holds a tensor.
sharded_post_forward_tensors ==
    IF _sharded_post_forward_param_data \in {Unset, None}
    THEN <<>> ELSE <<_sharded_post_forward_param_data>>

\* The tensors the parameter refers to; their storages are the live storages.
live_tensors ==
    <<_sharded_param_data>> \o sharded_post_forward_tensors
        \o all_gather_outputs \o _unsharded_inner_tensors

\* ------------------------------------------------------------------ storage
\* Mutant: the storage is resized to numel bytes, the itemsize forgotten.
alloc_storage_numel_bytes(st, t) == [st EXCEPT ![t.stor] = t.numel]

\* alloc_storage: resize the tensor's storage to numel * itemsize.
alloc_storage(st, t) == [st EXCEPT ![t.stor] = t.numel * t.itemsize]

\* free_storage: resize the tensor's storage to 0.
free_storage(st, t) == [st EXCEPT ![t.stor] = 0]

RECURSIVE alloc_all(_, _)
alloc_all(st, ts) ==
    IF ts = <<>> THEN st ELSE alloc_all(alloc_storage(st, Head(ts)), Tail(ts))

RECURSIVE free_all(_, _)
free_all(st, ts) ==
    IF ts = <<>> THEN st ELSE free_all(free_storage(st, Head(ts)), Tail(ts))

RECURSIVE FreshIds(_, _)
FreshIds(S, n) ==
    IF n = 0 THEN <<>>
    ELSE LET i == LeastNotIn(S) IN <<i>> \o FreshIds(S \cup {i}, n - 1)

\* Storages no tensor of the parameter refers to any more are collected.
Collect(st, tensors) ==
    [s \in {t.stor : t \in Range(tensors)} |-> st[s]]

\* The values in the storages st of the tensors, given the values mem before:
\* a storage that was resized (storage.resize_) keeps the values that fit and
\* has unknown values beyond them, a new storage has unknown values.
resized(mem, st, tensors) ==
    CHOOSE new \in
        {[s \in DOMAIN st |->
            LET t == CHOOSE u \in ts : u.stor = s
            IN  [i \in 1 .. (st[s] \div t.itemsize) |->
                    IF s \in DOMAIN old /\ i <= Len(old[s])
                    THEN old[s][i] ELSE Unknown]] :
         old \in {mem}, ts \in {Range(tensors)}} : TRUE

\* ------------------------------------------------------------------ calls
\* A call and its outcome: the operation, what it returned or raised, and the
\* state it was called in.
Call(op, result) == [op |-> op, result |-> result, from |-> sharded_state]

\* Mutant: the call frees every storage before it returns or raises.
Return_after_free(op, result) ==
    /\ last' = Call(op, result)
    /\ storage' = [s \in DOMAIN storage |-> 0]
    /\ UNCHANGED <<cfg, orig_dtype, param_dtype, reduce_dtype,
                   _sharded_param_data,
                   sharded_state, module_params, all_gather_outputs,
                   _unsharded_inner_tensors, _unsharded_param,
                   _sharded_post_forward_param, _sharded_post_forward_param_data,
                   _extensions_data, memory>>

\* The call returns or raises having changed nothing.
Return(op, result) ==
    /\ last' = Call(op, result)
    /\ UNCHANGED <<cfg, orig_dtype, param_dtype, reduce_dtype,
                   _sharded_param_data,
                   sharded_state, module_params, all_gather_outputs,
                   _unsharded_inner_tensors, _unsharded_param,
                   _sharded_post_forward_param, _sharded_post_forward_param_data,
                   _extensions_data, storage, memory>>

\* Mutant: the state is not checked.
_assert_in_states_unchecked(states) == TRUE

\* _assert_in_states: TRUE when the assertion passes.
_assert_in_states(states) == sharded_state \in states

\* Mutant: only the owning module gets the parameter, the shared ones are
\* left with the sharded parameter.
_setattr_on_modules_not_shared(param) ==
    [m \in Modules |-> IF m = 0 THEN param ELSE [kind |-> "Parameter", id |-> 0]]

\* _setattr_on_modules / unsafe_setattr_param: the module and every shared
\* (module, name) pair get the parameter under their name.  Module 0 is
\* _module_info.module, modules 1 .. NumSharedModules are the pairs zip gives.
_setattr_on_modules(param) == [m \in Modules |-> param]

\* ExtensionsData(): the dataclass with its defaults.
ExtensionsData == [all_gather_metadata |-> None, all_gather_input_sizes |-> <<>>]

\* Mutant: clear leaves the data as they are.
clear_keeps(data) == data

\* ExtensionsData.clear
clear(data) == [data EXCEPT !.all_gather_metadata = None, !.all_gather_input_sizes = <<>>]

\* ------------------------------------------------------------------ __init__
\* The state a construction that returned has left, for the parameters of
\* a set of configurations.
FSDPParam(configs) ==
    /\ cfg \in configs
    /\ orig_dtype = Unset
    /\ param_dtype = Unset
    /\ reduce_dtype = Unset
    /\ _sharded_param_data = padded_sharded_param_view(_orig_size, cfg.mesh_info)
    /\ sharded_state = "SHARDED"
    /\ module_params = _setattr_on_modules(sharded_param)
    /\ all_gather_outputs = <<>>
    /\ _unsharded_inner_tensors = <<>>
    /\ _unsharded_param = Unset
    /\ _sharded_post_forward_param = Unset
    /\ _sharded_post_forward_param_data = Unset
    /\ _extensions_data = IF cfg.ext # None THEN ExtensionsData ELSE Unset
    /\ storage = (_sharded_param_data.stor :>
                      _sharded_param_data.numel * _sharded_param_data.itemsize)
    /\ memory = (_sharded_param_data.stor :>
                     padded_sharded_param(_orig_size, cfg.mesh_info))
    /\ last = [op |-> "__init__", result |-> "ok", from |-> "SHARDED"]

Init == FSDPParam(Configs)

\* ------------------------------------------------------------------ init_dtype_attrs
\* The mixed precision policies init_dtype_attrs is given: no casting, the
\* parameter's own dtype for param_dtype, and bfloat16 parameters reduced
\* in float32.
MixedPrecisionPolicies ==
    {[param_dtype |-> None, reduce_dtype |-> None],
     [param_dtype |-> float32, reduce_dtype |-> None],
     [param_dtype |-> bfloat16, reduce_dtype |-> float32]}

\* "Clamp param_dtype to None if no casting is required"
clamped_param_dtype(dtype, orig) == IF dtype = orig THEN None ELSE dtype

init_dtype_attrs(mp_policy) ==
    /\ last' = Call("init_dtype_attrs", "ok")
    /\ orig_dtype' = sharded_param_dtype
    /\ param_dtype' = clamped_param_dtype(mp_policy.param_dtype, orig_dtype')
    /\ reduce_dtype' = mp_policy.reduce_dtype
    /\ UNCHANGED <<cfg, _sharded_param_data, sharded_state, module_params,
                   all_gather_outputs, _unsharded_inner_tensors, _unsharded_param,
                   _sharded_post_forward_param, _sharded_post_forward_param_data,
                   _extensions_data, storage, memory>>

\* hasattr(self, "param_dtype"): reading the attribute before
\* init_dtype_attrs set it raises AttributeError.
hasattr_param_dtype == param_dtype # Unset

\* self.param_dtype or self.orig_dtype
param_dtype_or_orig_dtype == IF param_dtype # None THEN param_dtype ELSE orig_dtype

\* ------------------------------------------------------------------ init_all_gather_outputs
\* torch.empty for each (numel, dtype) pair zip gives: a new tensor on a new,
\* allocated storage.
empty_all_gather_outputs(numels, dtypes, world_size) ==
    LET n == Min(Len(numels), Len(dtypes))
        ids == FreshIds(DOMAIN storage, n)
    IN  [i \in 1 .. n |->
            [stor |-> ids[i], numel |-> numels[i] * world_size,
             itemsize |-> itemsize(dtypes[i])]]

\* Mutant: no early return, the outputs are constructed on every call.
init_all_gather_outputs_every_call(numels, dtypes, world_size) ==
    /\ last' = Call("init_all_gather_outputs", "ok")
    /\ LET kept == Collect(storage, <<_sharded_param_data>>
                           \o sharded_post_forward_tensors \o _unsharded_inner_tensors)
           n == Min(Len(numels), Len(dtypes))
           ids == FreshIds(DOMAIN storage, n)
           new == [i \in 1 .. n |->
                     [stor |-> ids[i], numel |-> numels[i] * world_size,
                      itemsize |-> itemsize(dtypes[i])]]
       IN  /\ all_gather_outputs' = new
           /\ storage' =
                [s \in DOMAIN kept \cup {t.stor : t \in Range(new)} |->
                   IF s \in DOMAIN kept THEN kept[s]
                   ELSE LET t == CHOOSE u \in Range(new) : u.stor = s
                        IN  t.numel * t.itemsize]
    /\ UNCHANGED <<cfg, orig_dtype, param_dtype, reduce_dtype,
                   _sharded_param_data,
                   sharded_state, module_params, _unsharded_inner_tensors,
                   _unsharded_param, _sharded_post_forward_param,
                   _sharded_post_forward_param_data, _extensions_data>>
    /\ memory' = resized(memory, storage', live_tensors')

init_all_gather_outputs(all_gather_input_numels, all_gather_input_dtypes, world_size) ==
    /\ last' = Call("init_all_gather_outputs", "ok")
    /\ IF all_gather_outputs # <<>>
       THEN UNCHANGED <<all_gather_outputs, storage>>
       ELSE LET new == empty_all_gather_outputs(
                           all_gather_input_numels, all_gather_input_dtypes, world_size)
            IN  /\ all_gather_outputs' = new
                /\ storage' =
                     [s \in DOMAIN storage \cup {t.stor : t \in Range(new)} |->
                        IF s \in DOMAIN storage THEN storage[s]
                        ELSE LET t == CHOOSE u \in Range(new) : u.stor = s
                             IN  t.numel * t.itemsize]
    /\ UNCHANGED <<cfg, orig_dtype, param_dtype, reduce_dtype,
                   _sharded_param_data,
                   sharded_state, module_params, _unsharded_inner_tensors,
                   _unsharded_param, _sharded_post_forward_param,
                   _sharded_post_forward_param_data, _extensions_data>>
    /\ memory' = resized(memory, storage', live_tensors')

\* ------------------------------------------------------------------ alloc / free
alloc_all_gather_outputs ==
    /\ last' = Call("alloc_all_gather_outputs", "ok")
    /\ storage' = alloc_all(storage, all_gather_outputs)
    /\ UNCHANGED <<cfg, orig_dtype, param_dtype, reduce_dtype,
                   _sharded_param_data,
                   sharded_state, module_params, all_gather_outputs,
                   _unsharded_inner_tensors, _unsharded_param,
                   _sharded_post_forward_param, _sharded_post_forward_param_data,
                   _extensions_data>>
    /\ memory' = resized(memory, storage', live_tensors')

\* Mutant: the inner tensors are not freed.
freed_all_gather_outputs_only(st) == free_all(st, all_gather_outputs)

\* Mutant: the padded shard is freed with them.
freed_with_the_shard(st) ==
    free_all(st, <<_sharded_param_data>> \o all_gather_outputs
                     \o _unsharded_inner_tensors)

\* The storages after free_unsharded_param: every all-gather output and every
\* inner tensor freed.
freed_unsharded_param(st) ==
    free_all(st, all_gather_outputs \o _unsharded_inner_tensors)

free_unsharded_param ==
    /\ last' = Call("free_unsharded_param", "ok")
    /\ storage' = freed_unsharded_param(storage)
    /\ UNCHANGED <<cfg, orig_dtype, param_dtype, reduce_dtype,
                   _sharded_param_data,
                   sharded_state, module_params, all_gather_outputs,
                   _unsharded_inner_tensors, _unsharded_param,
                   _sharded_post_forward_param, _sharded_post_forward_param_data,
                   _extensions_data>>
    /\ memory' = resized(memory, storage', live_tensors')

\* ------------------------------------------------------------------ extension hooks
\* _unflatten_all_gather_outputs: one view per (all-gather output, saved input
\* size) pair zip gives; a view sits on the storage of its all-gather output.
_unflatten_all_gather_outputs ==
    [i \in 1 .. Min(Len(all_gather_outputs),
                    Len(_extensions_data.all_gather_input_sizes)) |->
        all_gather_outputs[i]]

\* fsdp_pre_all_gather: the extension's all-gather inputs and its metadata.
fsdp_pre_all_gather ==
    [all_gather_metadata |-> [kind |-> "metadata"],
     all_gather_input_sizes |-> [i \in 1 .. cfg.ext.num_inputs |-> <<1>>]]

\* fsdp_post_all_gather is the extension's code: it takes the all-gather
\* outputs of its own inputs apart, and raises when it is given another
\* number of them (none, when no input sizes are saved).
fsdp_post_all_gather_raises(outs) == Len(outs) # cfg.ext.num_inputs

\* The inner tensors fsdp_post_all_gather returns on the first call.
fsdp_post_all_gather_inner_tensors(outs) ==
    CASE cfg.ext.inner = "none" -> <<>>
      [] cfg.ext.inner = "alias" -> outs
      [] OTHER -> <<[stor |-> LeastNotIn(DOMAIN storage), numel |-> orig_numel,
                     itemsize |-> itemsize(float32)]>>

\* What init_unsharded_param passes to fsdp_post_all_gather: the unflattened
\* all-gather outputs, the saved metadata and the dtype of the parameter.
fsdp_post_all_gather_args ==
    [all_gather_outputs |-> _unflatten_all_gather_outputs,
     metadata |-> _extensions_data.all_gather_metadata,
     param_dtype |-> param_dtype_or_orig_dtype]

\* ------------------------------------------------------------------ init_unsharded_param
\* hasattr(self, "_unsharded_param")
hasattr_unsharded_param == _unsharded_param # Unset

\* Mutant: the unsharded parameter is constructed on every call.
after_first_all_gather_never == FALSE

\* init_unsharded_param's test for "after the 1st all-gather".
after_first_all_gather == hasattr_unsharded_param

\* torch.as_strided(tensor, size, contiguous strides, 0) raises when the
\* view is not empty and the tensor's storage is too small for it.
as_strided_in_bounds(view_numel, tensor_itemsize, storage_bytes) ==
    view_numel = 0 \/ view_numel * tensor_itemsize <= storage_bytes

\* Mutant: the inner tensors are left as free_unsharded_param left them.
inner_tensors_left_freed(st) == st

\* for tensor in self._unsharded_inner_tensors: alloc_storage(tensor)
alloc_unsharded_inner_tensors(st) == alloc_all(st, _unsharded_inner_tensors)

init_unsharded_param ==
    LET op == "init_unsharded_param" IN
    IF after_first_all_gather /\ ~has_fsdp_post_all_gather
    THEN Return(op, "ok")
    ELSE IF after_first_all_gather
    THEN LET allocated == alloc_unsharded_inner_tensors(storage)
             outs == _unflatten_all_gather_outputs
         IN  /\ storage' = allocated
             /\ IF ~hasattr_param_dtype
                THEN /\ last' = Call(op, "AttributeError: param_dtype")
                     /\ UNCHANGED _extensions_data
                ELSE IF fsdp_post_all_gather_raises(outs)
                THEN /\ last' = Call(op, "ExtensionError")
                     /\ UNCHANGED _extensions_data
                ELSE /\ last' = Call(op, "ok")
                     /\ _extensions_data' = clear(_extensions_data)
             /\ UNCHANGED <<cfg, orig_dtype, param_dtype, reduce_dtype,
                   _sharded_param_data,
                            sharded_state, module_params, all_gather_outputs,
                            _unsharded_inner_tensors, _unsharded_param,
                            _sharded_post_forward_param,
                            _sharded_post_forward_param_data>>
             /\ memory' = resized(memory, storage', live_tensors')
    ELSE IF has_fsdp_post_all_gather
    THEN LET outs == _unflatten_all_gather_outputs
             inner == fsdp_post_all_gather_inner_tensors(outs)
             new == {t.stor : t \in Range(inner)} \ DOMAIN storage
         IN  IF ~hasattr_param_dtype
             THEN Return(op, "AttributeError: param_dtype")
             ELSE IF fsdp_post_all_gather_raises(outs)
             THEN Return(op, "ExtensionError")
             ELSE /\ last' = Call(op, "ok")
                  /\ _unsharded_inner_tensors' = inner
                  /\ storage' =
                       Collect([s \in DOMAIN storage \cup new |->
                                   IF s \in DOMAIN storage THEN storage[s]
                                   ELSE orig_numel * itemsize(float32)],
                               <<_sharded_param_data>> \o sharded_post_forward_tensors
                                   \o all_gather_outputs \o inner)
                  /\ _extensions_data' = clear(_extensions_data)
                  /\ _unsharded_param' = Parameter(LeastNotIn(LiveParameters))
                  /\ UNCHANGED <<cfg, orig_dtype, param_dtype, reduce_dtype,
                   _sharded_param_data,
                                 sharded_state, module_params,
                                 all_gather_outputs, _sharded_post_forward_param,
                                 _sharded_post_forward_param_data>>
                  /\ memory' = resized(memory, storage', live_tensors')
    ELSE IF Len(all_gather_outputs) # 1
    THEN Return(op, "AssertionError: len(all_gather_outputs)")
    ELSE IF ~as_strided_in_bounds(orig_numel, all_gather_outputs[1].itemsize,
                                  storage[all_gather_outputs[1].stor])
    THEN Return(op, "RuntimeError: as_strided")
    ELSE /\ last' = Call(op, "ok")
         /\ _unsharded_param' = Parameter(LeastNotIn(LiveParameters))
         /\ UNCHANGED <<cfg, orig_dtype, param_dtype, reduce_dtype,
                   _sharded_param_data,
                        sharded_state, module_params, all_gather_outputs,
                        _unsharded_inner_tensors, _sharded_post_forward_param,
                        _sharded_post_forward_param_data, _extensions_data, storage,
                        memory>>

\* ------------------------------------------------------------------ to_sharded
\* Mutant: the sharded parameter is not set on the modules.
to_sharded_no_setattr ==
    /\ last' = Call("to_sharded", "ok")
    /\ storage' = freed_unsharded_param(storage)
    /\ sharded_state' = "SHARDED"
    /\ UNCHANGED <<cfg, orig_dtype, param_dtype, reduce_dtype,
                   _sharded_param_data,
                   module_params, all_gather_outputs, _unsharded_inner_tensors,
                   _unsharded_param, _sharded_post_forward_param,
                   _sharded_post_forward_param_data, _extensions_data>>
    /\ memory' = resized(memory, storage', live_tensors')

\* Mutant: the unsharded parameter is not freed.
to_sharded_no_free ==
    /\ last' = Call("to_sharded", "ok")
    /\ module_params' = _setattr_on_modules(sharded_param)
    /\ sharded_state' = "SHARDED"
    /\ UNCHANGED <<cfg, orig_dtype, param_dtype, reduce_dtype,
                   _sharded_param_data,
                   all_gather_outputs, _unsharded_inner_tensors, _unsharded_param,
                   _sharded_post_forward_param, _sharded_post_forward_param_data,
                   _extensions_data, storage, memory>>

to_sharded ==
    /\ last' = Call("to_sharded", "ok")
    /\ module_params' = _setattr_on_modules(sharded_param)
    /\ storage' = freed_unsharded_param(storage)
    /\ sharded_state' = "SHARDED"
    /\ UNCHANGED <<cfg, orig_dtype, param_dtype, reduce_dtype,
                   _sharded_param_data,
                   all_gather_outputs, _unsharded_inner_tensors, _unsharded_param,
                   _sharded_post_forward_param, _sharded_post_forward_param_data,
                   _extensions_data>>
    /\ memory' = resized(memory, storage', live_tensors')

\* ------------------------------------------------------------------ to_sharded_post_forward
\* numel of self.sharded_post_forward_size
sharded_post_forward_numel ==
    numel(sharded_post_forward_size(_orig_size, cfg.post_forward_mesh_info))

\* Mutant: divisibility is not checked.
divisible_unchecked(out_numel, shard_world_size) == TRUE

\* Whether the all-gather output divides over the post-forward shard world size.
divisible_by_shard_world_size(out_numel, shard_world_size) ==
    out_numel % shard_world_size = 0

\* Mutant: the slice is kept as a view of the all-gather output, not cloned.
narrow_view(out, start, length, fresh) ==
    [stor |-> out.stor, numel |-> length, itemsize |-> out.itemsize]

\* all_gather_outputs[0].narrow(0, start, length).clone(): a tensor on a new
\* storage, fresh.
narrow_clone(out, start, length, fresh) ==
    [stor |-> fresh, numel |-> length, itemsize |-> out.itemsize]

\* tensor.narrow(0, start, length) raises when the slice is not empty and
\* ends beyond the tensor's storage (the storage was resized to 0).
narrow_in_bounds(start, length, tensor_itemsize, storage_bytes) ==
    length = 0 \/ (start + length) * tensor_itemsize <= storage_bytes

\* The values narrow(0, start, length) reads in a storage of these values.
narrowed(values, start, length) == [i \in 1 .. length |-> values[start + i]]

to_sharded_post_forward ==
    LET op == "to_sharded_post_forward" IN
    IF cfg.is_dtensor
    THEN Return(op, "NotImplementedError")
    ELSE IF ~_assert_in_states({"UNSHARDED"})
    THEN Return(op, "AssertionError: state")
    ELSE IF cfg.post_forward_mesh_info = None
    THEN Return(op, "AssertionError: post_forward_mesh_info")
    ELSE IF Len(all_gather_outputs) # 1
    THEN Return(op, "AssertionError: len(all_gather_outputs)")
    ELSE IF ~divisible_by_shard_world_size(
                all_gather_outputs[1].numel, cfg.post_forward_mesh_info.shard_mesh_size)
    THEN Return(op, "AssertionError: divisible")
    ELSE
      LET out == all_gather_outputs[1]
          sharded_numel == out.numel \div cfg.post_forward_mesh_info.shard_mesh_size
          shard_rank == cfg.post_forward_mesh_info.shard_mesh_rank
          data == narrow_clone(out, sharded_numel * shard_rank, sharded_numel,
                               LeastNotIn(DOMAIN storage))
          cloned_storage ==
              IF data.stor \in DOMAIN storage THEN storage
              ELSE storage @@ (data.stor :> data.numel * data.itemsize)
          cloned_memory ==
              IF data.stor \in DOMAIN memory THEN memory
              ELSE memory @@ (data.stor :> narrowed(memory[out.stor],
                                  sharded_numel * shard_rank, sharded_numel))
      IN    IF ~narrow_in_bounds(sharded_numel * shard_rank, sharded_numel,
                                 out.itemsize, storage[out.stor])
            THEN Return(op, "RuntimeError: narrow")
            ELSE IF \/ ~as_strided_in_bounds(sharded_post_forward_numel, data.itemsize,
                                             data.numel * data.itemsize)
                    \/ ~cfg.post_forward_mesh_info.hsdp
            THEN /\ last' = Call(op,
                        IF ~as_strided_in_bounds(sharded_post_forward_numel,
                                data.itemsize, data.numel * data.itemsize)
                        THEN "RuntimeError: as_strided"
                        ELSE "AssertionError: HSDPMeshInfo")
                 /\ _sharded_post_forward_param_data' = data
                 /\ UNCHANGED <<cfg, orig_dtype, param_dtype, reduce_dtype,
                   _sharded_param_data,
                                sharded_state, module_params, all_gather_outputs,
                                _unsharded_inner_tensors, _unsharded_param,
                                _sharded_post_forward_param, _extensions_data>>
                 /\ storage' = Collect(cloned_storage, live_tensors')
                 /\ memory' = resized(cloned_memory, storage', live_tensors')
            ELSE /\ last' = Call(op, "ok")
                 /\ _sharded_post_forward_param_data' = data
                 /\ _sharded_post_forward_param' = Parameter(LeastNotIn(LiveParameters))
                 /\ module_params' = _setattr_on_modules(_sharded_post_forward_param')
                 /\ sharded_state' = "SHARDED_POST_FORWARD"
                 /\ UNCHANGED <<cfg, orig_dtype, param_dtype, reduce_dtype,
                   _sharded_param_data,
                                all_gather_outputs, _unsharded_inner_tensors,
                                _unsharded_param, _extensions_data>>
                 /\ storage' = Collect(freed_unsharded_param(cloned_storage),
                                       live_tensors')
                 /\ memory' = resized(cloned_memory, storage', live_tensors')

\* ------------------------------------------------------------------ to_unsharded
\* Mutant: to_unsharded frees the unsharded parameter as to_sharded does.
to_unsharded_frees ==
    IF ~hasattr_unsharded_param
    THEN Return("to_unsharded", "AttributeError")
    ELSE /\ last' = Call("to_unsharded", "ok")
         /\ module_params' = _setattr_on_modules(_unsharded_param)
         /\ IF sharded_state = "SHARDED_POST_FORWARD"
            THEN /\ _sharded_post_forward_param' = None
                 /\ _sharded_post_forward_param_data' = None
            ELSE UNCHANGED <<_sharded_post_forward_param,
                             _sharded_post_forward_param_data>>
         /\ sharded_state' = "UNSHARDED"
         /\ UNCHANGED <<cfg, orig_dtype, param_dtype, reduce_dtype,
                   _sharded_param_data,
                        all_gather_outputs, _unsharded_inner_tensors,
                        _unsharded_param, _extensions_data>>
         /\ storage' = Collect(freed_unsharded_param(storage), live_tensors')
         /\ memory' = resized(memory, storage', live_tensors')

\* Mutant: to_unsharded keeps the post-forward replica.
to_unsharded_keeps_replica ==
    IF ~hasattr_unsharded_param
    THEN Return("to_unsharded", "AttributeError")
    ELSE /\ last' = Call("to_unsharded", "ok")
         /\ module_params' = _setattr_on_modules(_unsharded_param)
         /\ sharded_state' = "UNSHARDED"
         /\ UNCHANGED <<cfg, orig_dtype, param_dtype, reduce_dtype,
                   _sharded_param_data,
                        all_gather_outputs, _unsharded_inner_tensors,
                        _unsharded_param, _sharded_post_forward_param,
                        _sharded_post_forward_param_data, _extensions_data, storage,
                        memory>>

to_unsharded ==
    LET op == "to_unsharded" IN
    IF ~hasattr_unsharded_param
    THEN Return(op, "AttributeError")
    ELSE /\ last' = Call(op, "ok")
         /\ module_params' = _setattr_on_modules(_unsharded_param)
         /\ IF sharded_state = "SHARDED_POST_FORWARD"
            THEN /\ _sharded_post_forward_param' = None
                 /\ _sharded_post_forward_param_data' = None
            ELSE UNCHANGED <<_sharded_post_forward_param,
                             _sharded_post_forward_param_data>>
         /\ sharded_state' = "UNSHARDED"
         /\ UNCHANGED <<cfg, orig_dtype, param_dtype, reduce_dtype,
                   _sharded_param_data,
                        all_gather_outputs, _unsharded_inner_tensors,
                        _unsharded_param, _extensions_data>>
         /\ storage' = Collect(storage, live_tensors')
         /\ memory' = resized(memory, storage', live_tensors')

\* ------------------------------------------------------------------ all_gather_inputs
all_gather_inputs ==
    LET op == "all_gather_inputs" IN
    IF ~_assert_in_states({"SHARDED", "SHARDED_POST_FORWARD"})
    THEN Return(op, "AssertionError: state")
    ELSE IF sharded_state = "SHARDED" /\ has_fsdp_pre_all_gather
    THEN /\ last' = Call(op, "ok")
         /\ _extensions_data' = fsdp_pre_all_gather
         /\ UNCHANGED <<cfg, orig_dtype, param_dtype, reduce_dtype,
                   _sharded_param_data,
                        sharded_state, module_params, all_gather_outputs,
                        _unsharded_inner_tensors, _unsharded_param,
                        _sharded_post_forward_param, _sharded_post_forward_param_data,
                        storage, memory>>
    ELSE IF sharded_state = "SHARDED_POST_FORWARD" /\ has_fsdp_pre_all_gather
    THEN Return(op, "NotImplementedError")
    ELSE IF ~hasattr_param_dtype
    THEN Return(op, "AttributeError: param_dtype")
    ELSE Return(op, "ok")

\* ------------------------------------------------------------------ views
\* Mutant: the strides of a column-major tensor.
column_major_strides_for(size) == <<1, size[1]>>

\* make_contiguous_strides_for(size), of a two-dimensional size.
make_contiguous_strides_for(size) == <<size[2], 1>>

\* torch.as_strided(tensor, size, stride, storage_offset): the elements of
\* the view, by row, read in the values of the tensor's storage.
as_strided(values, size, stride, storage_offset) ==
    [i \in 1 .. size[1] |->
        [j \in 1 .. size[2] |->
            values[storage_offset + (i - 1) * stride[1] + (j - 1) * stride[2] + 1]]]

\* The elements of self._unsharded_param for a plain tensor: the view of
\* all_gather_outputs[0] init_unsharded_param takes.
unsharded_param_values ==
    as_strided(memory[all_gather_outputs[1].stor], _orig_size,
               make_contiguous_strides_for(_orig_size), 0)

\* The elements of the original parameter before it was sharded, by row:
\* they are numbered in row-major order.
param_data(size) ==
    [i \in 1 .. size[1] |-> [j \in 1 .. size[2] |-> (i - 1) * size[2] + j]]

\* The rows of chunk number rank of torch.chunk(tensor, num_chunks, dim=0),
\* completed with empty chunks, for the original parameter of this size.
param_chunk(size, num_chunks, rank) ==
    LET chunk_size == (size[1] + num_chunks - 1) \div num_chunks
    IN  [i \in 1 .. chunk_dim0_size(size[1], num_chunks, rank) |->
            param_data(size)[rank * chunk_size + i]]

\* The elements of the tensor of self._sharded_post_forward_param: the view
\* of the replica to_sharded_post_forward takes.
sharded_post_forward_values ==
    LET size == sharded_post_forward_size(_orig_size, cfg.post_forward_mesh_info)
    IN  as_strided(memory[_sharded_post_forward_param_data.stor], size,
                   make_contiguous_strides_for(size), 0)

\* ------------------------------------------------------------------ all-gather
\* An element cast to another dtype is not, bit for bit, the element it was
\* cast from: it is numbered from CastTag.
CastTag == 1000

\* _to_dtype_if_needed(tensor, dtype): the values as they are when the tensor
\* has the dtype already, cast otherwise.
_to_dtype_if_needed(values, from_itemsize, to_itemsize) ==
    IF from_itemsize = to_itemsize THEN values
    ELSE [i \in DOMAIN values |->
            IF values[i] = Unknown THEN Unknown ELSE values[i] + CastTag]

\* The itemsize of what all_gather_inputs returns for a plain tensor of this
\* itemsize: _to_dtype_if_needed(tensor, self.param_dtype).
all_gather_input_itemsize(tensor_itemsize) ==
    IF param_dtype = None THEN tensor_itemsize ELSE itemsize(param_dtype)

\* What rank r of the shard mesh gives the all-gather in state SHARDED: its
\* padded shard, this rank's being read in its storage.
all_gather_input_of(r) ==
    IF r = cfg.mesh_info.shard_mesh_rank
    THEN memory[_sharded_param_data.stor]
    ELSE padded_sharded_param(_orig_size, rank_mesh_info(r))

\* The concatenation, ordered by rank, of the inputs of the ranks
\* 0 .. world_size - 1, of numel elements each.
rank_major(inputs, numel_each, world_size) ==
    [k \in 1 .. numel_each * world_size |->
        inputs[(k - 1) \div numel_each][((k - 1) % numel_each) + 1]]

\* The all-gather of the padded shards over the shard mesh.
all_gathered_shards ==
    rank_major([r \in ShardRanks |-> all_gather_input_of(r)],
               _sharded_param_data.numel, cfg.mesh_info.shard_mesh_size)

\* What rank r of the post-forward shard mesh gives the all-gather in state
\* SHARDED_POST_FORWARD: its replica.  This rank's is read in its storage;
\* another rank's is that rank's slice of the same all-gather output, known
\* when this rank's slice is the slice of the gathered shards.
post_forward_input_of(r) ==
    LET data == _sharded_post_forward_param_data
        own == memory[data.stor]
        full == _to_dtype_if_needed(all_gathered_shards,
                    _sharded_param_data.itemsize, data.itemsize)
        rank == cfg.post_forward_mesh_info.shard_mesh_rank
    IN  IF r = rank
        THEN _to_dtype_if_needed(own, data.itemsize,
                                 all_gather_input_itemsize(data.itemsize))
        ELSE IF own = narrowed(full, rank * data.numel, data.numel)
        THEN narrowed(full, r * data.numel, data.numel)
        ELSE [i \in 1 .. data.numel |-> Unknown]

\* The collective of the communication collaborator, between
\* all_gather_inputs and init_unsharded_param: it fills the allocated
\* all-gather output with the inputs of all ranks, ordered by rank, the
\* output being of the dtype of the inputs all_gather_inputs returned.  The
\* inputs an extension gives are its own, their values stay unknown.
all_gather ==
    /\ cfg.ext = None
    /\ sharded_state \in {"SHARDED", "SHARDED_POST_FORWARD"}
    /\ hasattr_param_dtype
    /\ all_gather_outputs # <<>>
    /\ \A t \in Range(all_gather_outputs) : storage[t.stor] = t.numel * t.itemsize
    /\ all_gather_outputs[1].itemsize =
         all_gather_input_itemsize(
             IF sharded_state = "SHARDED" THEN _sharded_param_data.itemsize
             ELSE _sharded_post_forward_param_data.itemsize)
    /\ LET out == all_gather_outputs[1]
           data == _sharded_post_forward_param_data
           filled ==
               IF sharded_state = "SHARDED"
               THEN _to_dtype_if_needed(all_gathered_shards,
                        _sharded_param_data.itemsize, out.itemsize)
               ELSE rank_major(
                        [r \in 0 .. cfg.post_forward_mesh_info.shard_mesh_size - 1 |->
                            post_forward_input_of(r)],
                        data.numel, cfg.post_forward_mesh_info.shard_mesh_size)
       IN  memory' = [memory EXCEPT ![out.stor] = filled]
    /\ last' = Call("all_gather", "ok")
    /\ UNCHANGED <<cfg, orig_dtype, param_dtype, reduce_dtype,
                   _sharded_param_data, sharded_state, module_params,
                   all_gather_outputs, _unsharded_inner_tensors, _unsharded_param,
                   _sharded_post_forward_param, _sharded_post_forward_param_data,
                   _extensions_data, storage>>

\* ------------------------------------------------------------------ specification
\* The numel of _sharded_param_data: the padded shard, which has the size of
\* chunk 0 on every rank.
padded_sharded_numel == _sharded_param_data.numel

\* The arguments init_all_gather_outputs is called with: the numel and the
\* dtype of each tensor all_gather_inputs returns, and the size of the shard
\* mesh.  A plain tensor gives one input, its padded shard, in its own dtype
\* or cast to param_dtype; an extension gives the inputs of its choice.
num_all_gather_inputs == IF cfg.ext = None THEN 1 ELSE cfg.ext.num_inputs

AllGatherArgs ==
    {[numels |-> [i \in 1 .. num_all_gather_inputs |->
                    IF cfg.ext = None THEN padded_sharded_numel ELSE m],
      dtypes |-> [i \in 1 .. num_all_gather_inputs |-> d],
      world_size |-> cfg.mesh_info.shard_mesh_size] :
        m \in 0 .. MaxNumel, d \in DTypes}

\* Once the outputs exist the call returns before it reads its arguments:
\* one argument list then stands for them all.
InitAllGatherOutputsArgs ==
    IF all_gather_outputs # <<>>
    THEN {CHOOSE a \in AllGatherArgs : TRUE}
    ELSE AllGatherArgs

Next ==
    \/ \E mp_policy \in MixedPrecisionPolicies : init_dtype_attrs(mp_policy)
    \/ \E a \in InitAllGatherOutputsArgs :
         init_all_gather_outputs(a.numels, a.dtypes, a.world_size)
    \/ alloc_all_gather_outputs
    \/ free_unsharded_param
    \/ init_unsharded_param
    \/ to_sharded
    \/ to_sharded_post_forward
    \/ to_unsharded
    \/ all_gather_inputs
    \/ all_gather

Spec == Init /\ [][Next]_vars

\* The same operations on the plain tensor parameters of DenseConfigs.
DenseInit == FSDPParam(DenseConfigs)

Dense == DenseInit /\ [][Next]_vars

\* ------------------------------------------------------------------ construction
\* What __init__ is given.  size is the size of the local tensor (param_data)
\* of the original parameter; tp is None for a plain parameter and describes
\* the TP spec of a DTensor parameter; has_pre / has_post say which hooks the
\* shard's tensor class defines; mesh_info.hsdp says the mesh has a replicate
\* dimension (the shard dimension is then not dimension 0).
TPSpecs == [same_parent_mesh : BOOLEAN, num_placements : 1 .. 2]

MainMeshInfos ==
    {mi \in [shard_mesh_size : 1 .. MaxShards, shard_mesh_rank : 0 .. MaxShards - 1,
             hsdp : BOOLEAN] : mi.shard_mesh_rank < mi.shard_mesh_size}

ConstructorArgs ==
    [size : {<<n, c>> : n \in 0 .. MaxDim0, c \in {1, MaxCols}},
     device_ok : BOOLEAN,
     tp : {None} \cup TPSpecs,
     has_pre : BOOLEAN,
     has_post : BOOLEAN,
     mesh_info : MainMeshInfos,
     post_forward_mesh_info : {None} \cup MeshInfos]

\* Mutant: only a pre-all-gather hook without its post-all-gather is refused.
hooks_mismatch_pre_only(has_pre, has_post) == has_pre /\ ~has_post

\* _init_extensions: one hook is defined without the other.
hooks_mismatch(has_pre, has_post) == has_pre # has_post

\* The first state of a construction: the arguments, the original parameter
\* on the modules, no attribute of the FSDPParam set.
orig_param == [kind |-> "Parameter", id |-> -1]

InitArgs ==
    /\ cfg \in ConstructorArgs
    /\ orig_dtype = Unset
    /\ param_dtype = Unset
    /\ reduce_dtype = Unset
    /\ _sharded_param_data = Unset
    /\ sharded_state = Unset
    /\ module_params = [m \in Modules |-> orig_param]
    /\ all_gather_outputs = Unset
    /\ _unsharded_inner_tensors = Unset
    /\ _unsharded_param = Unset
    /\ _sharded_post_forward_param = Unset
    /\ _sharded_post_forward_param_data = Unset
    /\ _extensions_data = Unset
    /\ storage = <<>>
    /\ memory = <<>>
    /\ last = [op |-> "none", result |-> "none", from |-> Unset]

\* __init__ raised in _init_sharded_param, before it set anything.
raise_in_init_sharded_param(result) ==
    /\ last' = [op |-> "__init__", result |-> result, from |-> Unset]
    /\ UNCHANGED <<cfg, orig_dtype, param_dtype, reduce_dtype,
                   _sharded_param_data,
                   sharded_state, module_params, all_gather_outputs,
                   _unsharded_inner_tensors, _unsharded_param,
                   _sharded_post_forward_param, _sharded_post_forward_param_data,
                   _extensions_data, storage, memory>>

\* What _init_sharded_param leaves when it returns: the padded shard in its
\* storage, the sharded parameter on the modules, the state SHARDED.
_init_sharded_param ==
    /\ _sharded_param_data' = padded_sharded_param_view(_orig_size, cfg.mesh_info)
    /\ storage' = (_sharded_param_data'.stor :>
                       _sharded_param_data'.numel * _sharded_param_data'.itemsize)
    /\ memory' = (_sharded_param_data'.stor :>
                      padded_sharded_param(_orig_size, cfg.mesh_info))
    /\ module_params' = _setattr_on_modules(sharded_param)
    /\ sharded_state' = "SHARDED"

\* __init__ raised in _init_extensions: _init_sharded_param has set the
\* sharded parameter on the modules and the state already.
raise_in_init_extensions(result) ==
    /\ last' = [op |-> "__init__", result |-> result, from |-> Unset]
    /\ _init_sharded_param
    /\ UNCHANGED <<cfg, orig_dtype, param_dtype, reduce_dtype,
                   all_gather_outputs, _unsharded_inner_tensors,
                   _unsharded_param, _sharded_post_forward_param,
                   _sharded_post_forward_param_data, _extensions_data>>

__init__ ==
    /\ last.op = "none"
    /\ IF ~cfg.device_ok
       THEN raise_in_init_sharded_param("AssertionError: device")
       ELSE IF cfg.tp # None /\ cfg.mesh_info.hsdp
       THEN raise_in_init_sharded_param("NotImplementedError: TP with HSDP")
       ELSE IF cfg.tp # None /\ ~cfg.tp.same_parent_mesh
       THEN raise_in_init_sharded_param("AssertionError: parent mesh")
       ELSE IF cfg.tp # None /\ cfg.tp.num_placements # 1
       THEN raise_in_init_sharded_param("NotImplementedError: 1D TP")
       ELSE IF hooks_mismatch(cfg.has_pre, cfg.has_post)
       THEN raise_in_init_extensions("AssertionError: hooks")
       ELSE IF cfg.has_pre /\ uneven_sharding(cfg.size, cfg.mesh_info)
       THEN raise_in_init_extensions("NotImplementedError: even sharding")
       ELSE /\ last' = [op |-> "__init__", result |-> "ok", from |-> Unset]
            /\ _init_sharded_param
            /\ _extensions_data' = IF cfg.has_pre THEN ExtensionsData ELSE Unset
            /\ _unsharded_inner_tensors' = <<>>
            /\ all_gather_outputs' = <<>>
            /\ UNCHANGED <<cfg, orig_dtype, param_dtype, reduce_dtype,
                           _unsharded_param, _sharded_post_forward_param,
                           _sharded_post_forward_param_data>>

\* The construction of one FSDPParam on one rank, for every argument.  Init
\* of Spec is the state a construction that returns leaves, cfg keeping of
\* the arguments what the operations read.
Construction == InitArgs /\ [][__init__]_vars

\* ------------------------------------------------------------------ properties
\* The size in bytes of the storage a tensor sits on, and its full size.
storage_size(t) == storage[t.stor]
full_size(t) == t.numel * t.itemsize

unsharded_buffers == all_gather_outputs \o _unsharded_inner_tensors

AllFreed == \A t \in Range(unsharded_buffers) : storage_size(t) = 0
AllResident == \A t \in Range(unsharded_buffers) : storage_size(t) = full_size(t)

Released(x) == x = Unset \/ x = None

\* C1: after construction and after every transition the tensor bound under
\* the parameter name on the owning module is the view that goes with
\* sharded_state (the sharded, the post-forward or the unsharded parameter),
\* and the three views are three different objects.
C1_BindingMatchesState ==
    /\ sharded_state = "SHARDED" => module_params[0] = sharded_param
    /\ sharded_state = "SHARDED_POST_FORWARD" =>
          /\ _sharded_post_forward_param.kind = "Parameter"
          /\ module_params[0] = _sharded_post_forward_param
    /\ sharded_state = "UNSHARDED" =>
          /\ _unsharded_param.kind = "Parameter"
          /\ module_params[0] = _unsharded_param
    /\ _unsharded_param # sharded_param
    /\ _sharded_post_forward_param # sharded_param
    /\ _sharded_post_forward_param.kind = "Parameter" =>
          _sharded_post_forward_param # _unsharded_param

\* to_sharded has returned from SHARDED_POST_FORWARD: all three views exist.
C1_Witness ==
    /\ last = [op |-> "to_sharded", result |-> "ok", from |-> "SHARDED_POST_FORWARD"]
    /\ _unsharded_param.kind = "Parameter"
    /\ _sharded_post_forward_param.kind = "Parameter"

\* C2: once init_unsharded_param has constructed _unsharded_param, no
\* operation replaces the object; only the size of its storage changes.
C2_UnshardedParamNeverReplaced ==
    [][_unsharded_param # Unset => _unsharded_param' = _unsharded_param]_vars

\* init_unsharded_param has run again, on a post-forward resharded parameter
\* whose unsharded parameter exists and whose buffers were freed meanwhile.
C2_Witness ==
    /\ last = [op |-> "init_unsharded_param", result |-> "ok",
               from |-> "SHARDED_POST_FORWARD"]
    /\ _unsharded_param.kind = "Parameter"
    /\ full_size(all_gather_outputs[1]) > 0

\* C3: the storage of every all-gather output has 0 bytes or exactly
\* numel * itemsize bytes.
C3_AllGatherOutputSizes ==
    \A t \in Range(all_gather_outputs) : storage_size(t) \in {0, full_size(t)}

\* alloc_all_gather_outputs has allocated again the freed outputs of a
\* post-forward resharded parameter.
C3_Witness ==
    /\ last = [op |-> "alloc_all_gather_outputs", result |-> "ok",
               from |-> "SHARDED_POST_FORWARD"]
    /\ \A t \in Range(all_gather_outputs) :
          full_size(t) > 0 /\ storage_size(t) = full_size(t)

\* C4: to_sharded can be called in every state, also before any all-gather
\* output exists, and when it has returned the state is SHARDED, the sharded
\* parameter is bound to the module and every all-gather output and every
\* inner tensor has a storage of 0 bytes.
C4_ToSharded ==
    /\ ENABLED to_sharded
    /\ last.op = "to_sharded" =>
          /\ last.result = "ok"
          /\ sharded_state = "SHARDED"
          /\ module_params[0] = sharded_param
          /\ AllFreed

\* to_sharded has returned from UNSHARDED with two all-gather outputs and an
\* inner tensor of the extension's own to free.
C4_Witness ==
    /\ last = [op |-> "to_sharded", result |-> "ok", from |-> "UNSHARDED"]
    /\ Len(all_gather_outputs) = 2
    /\ \E t \in Range(_unsharded_inner_tensors) :
          t \notin Range(all_gather_outputs) /\ full_size(t) > 0
    /\ \A t \in Range(all_gather_outputs) : full_size(t) > 0

\* C5: whenever the state is SHARDED the parameter holds no post-forward
\* replica: neither _sharded_post_forward_param nor
\* _sharded_post_forward_param_data.
C5_ShardedHoldsNoReplica ==
    sharded_state = "SHARDED" =>
        /\ Released(_sharded_post_forward_param)
        /\ Released(_sharded_post_forward_param_data)

\* C6, as claimed: whenever the state is UNSHARDED every all-gather output
\* and every inner tensor has its full storage.
C6_UnshardedIsResident ==
    sharded_state = "UNSHARDED" => AllResident

\* C6, amended: buffers that are resident stay resident over every call that
\* ends in state UNSHARDED, free_unsharded_param excepted; so to_unsharded
\* called with resident buffers gives UNSHARDED with resident buffers, and
\* they stay so until they are freed.
C6_ResidentUntilFreed ==
    [][(AllResident /\ sharded_state' = "UNSHARDED"
            /\ last'.op # "free_unsharded_param") => AllResident']_vars

\* to_unsharded has returned with two non-empty all-gather outputs and an
\* inner tensor, all of them resident.
C6_Witness ==
    /\ last.op = "to_unsharded" /\ last.result = "ok"
    /\ sharded_state = "UNSHARDED"
    /\ Len(all_gather_outputs) = 2
    /\ _unsharded_inner_tensors # <<>>
    /\ \A t \in Range(unsharded_buffers) :
          full_size(t) > 0 /\ storage_size(t) = full_size(t)

\* C7: all_gather_inputs read in state UNSHARDED fails the state assertion,
\* to_sharded_post_forward called in state SHARDED or SHARDED_POST_FORWARD
\* fails, and neither returns normally from a state outside its allowed set.
C7_WrongStateRejected ==
    /\ (last.op = "all_gather_inputs" /\ last.from = "UNSHARDED") =>
          last.result = "AssertionError: state"
    /\ (last.op = "to_sharded_post_forward" /\ last.from # "UNSHARDED") =>
          last.result \in {"AssertionError: state", "NotImplementedError"}
    /\ (last.op = "all_gather_inputs" /\ last.result = "ok") =>
          last.from \in {"SHARDED", "SHARDED_POST_FORWARD"}
    /\ (last.op = "to_sharded_post_forward" /\ last.result = "ok") =>
          last.from = "UNSHARDED"

\* to_sharded_post_forward has failed the state assertion on a parameter that
\* is post-forward resharded already.
C7_Witness ==
    /\ last = [op |-> "to_sharded_post_forward", result |-> "AssertionError: state",
               from |-> "SHARDED_POST_FORWARD"]
    /\ sharded_state = "SHARDED_POST_FORWARD"

\* C8: a call of init_all_gather_outputs made when the outputs exist, be they
\* allocated or freed, changes nothing: not the list, not the identity of a
\* buffer, not the size of a storage.  So two calls allocate once.
C8_InitAllGatherOutputsOnce ==
    [][(last'.op = "init_all_gather_outputs" /\ all_gather_outputs # <<>>) =>
          /\ last'.result = "ok"
          /\ UNCHANGED <<all_gather_outputs, storage, _unsharded_inner_tensors,
                         _unsharded_param, sharded_state, module_params>>]_vars

\* init_all_gather_outputs has returned on outputs that exist and are freed.
C8_Witness ==
    /\ last.op = "init_all_gather_outputs" /\ last.result = "ok"
    /\ Len(all_gather_outputs) = 2
    /\ \A t \in Range(all_gather_outputs) : full_size(t) > 0 /\ storage_size(t) = 0

\* C9: free_unsharded_param returns without error in every state, however
\* often it is called; after it every all-gather output and every inner
\* tensor has a storage of 0 bytes, and sharded_state and the module binding
\* are what they were.
C9_FreeUnshardedParam ==
    [][last'.op = "free_unsharded_param" =>
          /\ last'.result = "ok"
          /\ AllFreed'
          /\ UNCHANGED <<sharded_state, module_params, all_gather_outputs,
                         _unsharded_inner_tensors>>]_vars

\* free_unsharded_param has returned in state UNSHARDED, with all-gather
\* outputs and an inner tensor of the extension's own to free.
C9_Witness ==
    /\ last = [op |-> "free_unsharded_param", result |-> "ok", from |-> "UNSHARDED"]
    /\ sharded_state = "UNSHARDED"
    /\ \E t \in Range(_unsharded_inner_tensors) :
          t \notin Range(all_gather_outputs) /\ full_size(t) > 0
    /\ \E t \in Range(all_gather_outputs) : full_size(t) > 0

\* The call to_sharded_post_forward was made in state UNSHARDED with one
\* all-gather output whose numel the post-forward shard world size does not
\* divide.
NonDivisibleCall ==
    /\ last.op = "to_sharded_post_forward"
    /\ last.from = "UNSHARDED"
    /\ cfg.post_forward_mesh_info # None
    /\ Len(all_gather_outputs) = 1
    /\ all_gather_outputs[1].numel % cfg.post_forward_mesh_info.shard_mesh_size # 0

\* to_sharded_post_forward returned normally only in state UNSHARDED, with a
\* numel the shard world size divides, and left state SHARDED_POST_FORWARD.
SucceedsOnlyDivisible ==
    (last.op = "to_sharded_post_forward" /\ last.result = "ok") =>
        /\ last.from = "UNSHARDED"
        /\ sharded_state = "SHARDED_POST_FORWARD"
        /\ all_gather_outputs[1].numel % cfg.post_forward_mesh_info.shard_mesh_size = 0

\* C10, as claimed: to_sharded_post_forward called in state UNSHARDED fails
\* with the non-divisibility violation whenever the numel of the single
\* all-gather output is not divisible by the post-forward shard world size,
\* and succeeds only when it is divisible.
C10_NonDivisibleFails ==
    /\ NonDivisibleCall => last.result = "AssertionError: divisible"
    /\ SucceedsOnlyDivisible

\* C10, amended: so it is for a parameter that is not a DTensor; for a
\* DTensor parameter the call fails with NotImplementedError before the
\* numel is looked at.
C10_NonDivisibleFailsUnlessDTensor ==
    /\ (NonDivisibleCall /\ ~cfg.is_dtensor) => last.result = "AssertionError: divisible"
    /\ (NonDivisibleCall /\ cfg.is_dtensor) => last.result = "NotImplementedError"
    /\ SucceedsOnlyDivisible

\* to_sharded_post_forward has failed on a numel of 1 and a shard world size
\* of 2.
C10_Witness ==
    /\ NonDivisibleCall
    /\ last.result = "AssertionError: divisible"
    /\ sharded_state = "UNSHARDED"

\* A step in which init_unsharded_param invokes fsdp_post_all_gather: every
\* call on a parameter that has the hook, once the dtype attributes exist
\* (before, reading self.param_dtype for the call raises AttributeError).
fsdp_post_all_gather_invoked ==
    /\ last'.op = "init_unsharded_param"
    /\ has_fsdp_post_all_gather
    /\ hasattr_param_dtype

\* C11, as claimed: every invocation of fsdp_post_all_gather receives metadata
\* and input sizes a preceding fsdp_pre_all_gather recorded and no earlier
\* invocation consumed: it is never given the cleared values (None, no
\* sizes), and it clears what it was given.
C11_MetadataConsumedOnce ==
    [][fsdp_post_all_gather_invoked =>
          /\ fsdp_post_all_gather_args.metadata # None
          /\ _extensions_data.all_gather_input_sizes # <<>>
          /\ last'.result = "ok" => _extensions_data' = ExtensionsData]_vars

\* C11, amended: an invocation receives what _extensions_data holds; that is
\* the metadata and the sizes the last fsdp_pre_all_gather recorded together,
\* or the cleared values when no all_gather_inputs came since the last
\* invocation that returned.  An invocation that returns clears both, one
\* that raises leaves them, and nothing else clears them: no metadata is
\* given to two invocations that return.
C11_MetadataClearedWhenConsumed ==
    [][has_fsdp_post_all_gather =>
          /\ fsdp_post_all_gather_invoked =>
                /\ _extensions_data \in {ExtensionsData, fsdp_pre_all_gather}
                /\ fsdp_post_all_gather_args.metadata = None =>
                      fsdp_post_all_gather_args.all_gather_outputs = <<>>
                /\ last'.result = "ok" => _extensions_data' = ExtensionsData
                /\ last'.result # "ok" => _extensions_data' = _extensions_data
          /\ (_extensions_data # ExtensionsData /\ _extensions_data' = ExtensionsData) =>
                (last'.op = "init_unsharded_param" /\ last'.result = "ok")]_vars

\* init_unsharded_param has run the hook in place on an unsharded parameter
\* that exists, with two all-gather outputs, and the metadata is cleared.
C11_Witness ==
    /\ last = [op |-> "init_unsharded_param", result |-> "ok", from |-> "SHARDED"]
    /\ has_fsdp_post_all_gather
    /\ _unsharded_param.kind = "Parameter"
    /\ Len(all_gather_outputs) = 2
    /\ _extensions_data = ExtensionsData
    /\ \E t \in Range(_unsharded_inner_tensors) :
          t \notin Range(all_gather_outputs) /\ storage_size(t) = full_size(t)

\* C15: after every transition every shared (module, name) alias is bound to
\* the tensor object the owning module is bound to.
C15_SharedModulesFollow ==
    \A m \in Modules : module_params[m] = module_params[0]

\* to_unsharded has returned and the last shared module holds the unsharded
\* parameter.
C15_Witness ==
    /\ last.op = "to_unsharded" /\ last.result = "ok"
    /\ NumSharedModules >= 1
    /\ _unsharded_param.kind = "Parameter"
    /\ module_params[NumSharedModules] = _unsharded_param

\* C19: to_unsharded called in state SHARDED_POST_FORWARD sets
\* _sharded_post_forward_param and _sharded_post_forward_param_data to None
\* and the state to UNSHARDED; called in state SHARDED it leaves the two
\* attributes as they are.
C19_ToUnshardedReleasesReplica ==
    [][(last'.op = "to_unsharded" /\ last'.result = "ok") =>
          /\ sharded_state' = "UNSHARDED"
          /\ sharded_state = "SHARDED_POST_FORWARD" =>
                /\ _sharded_post_forward_param' = None
                /\ _sharded_post_forward_param_data' = None
          /\ sharded_state = "SHARDED" =>
                UNCHANGED <<_sharded_post_forward_param,
                            _sharded_post_forward_param_data>>]_vars

\* to_unsharded has returned from SHARDED_POST_FORWARD and the replica is
\* released.
C19_Witness ==
    /\ last = [op |-> "to_unsharded", result |-> "ok", from |-> "SHARDED_POST_FORWARD"]
    /\ sharded_state = "UNSHARDED"
    /\ _sharded_post_forward_param = None
    /\ _sharded_post_forward_param_data = None

\* __init__ has returned or raised.
Constructed == last.op = "__init__" /\ last.result = "ok"

RECURSIVE sum_dim0(_)
sum_dim0(ranks) ==
    IF ranks = {} THEN 0
    ELSE LET r == CHOOSE x \in ranks : TRUE
         IN  sharded_size(cfg.size, rank_mesh_info(r))[1] + sum_dim0(ranks \ {r})

ceil_div(n, w) == (n + w - 1) \div w

\* The shard's tensor class defines both hooks and dim 0 does not divide over
\* the shard world size; the checks before _init_extensions pass.
UnevenExtension ==
    /\ last.op = "__init__"
    /\ cfg.has_pre /\ cfg.has_post
    /\ cfg.size[1] % cfg.mesh_info.shard_mesh_size # 0
    /\ cfg.device_ok /\ cfg.tp = None

\* C12: when the shard's representation defines the hook pair and the dim-0
\* size is not divisible by the shard world size, the construction fails with
\* the even-sharding error, on every shard rank.
C12_UnevenExtensionFails ==
    UnevenExtension => last.result = "NotImplementedError: even sharding"

\* C13: the construction raises the both-hooks error exactly when one of
\* fsdp_pre_all_gather / fsdp_post_all_gather is defined without the other
\* (and no earlier check has raised), so no constructed parameter has one
\* hook only.
C13_HooksAllOrNothing ==
    last.op = "__init__" =>
        /\ last.result = "AssertionError: hooks" => cfg.has_pre # cfg.has_post
        /\ cfg.has_pre # cfg.has_post =>
              /\ last.result # "ok"
              /\ (cfg.device_ok /\ cfg.tp = None) =>
                    last.result = "AssertionError: hooks"
        /\ last.result = "ok" => cfg.has_pre = cfg.has_post

\* A shard with fsdp_pre_all_gather and no fsdp_post_all_gather was refused.
C13_Witness ==
    /\ last.op = "__init__" /\ last.result = "AssertionError: hooks"
    /\ cfg.has_pre /\ ~cfg.has_post

\* C16: for every shard count W and dim-0 size n, the dim-0 sizes of
\* sharded_size over the ranks 0 .. W-1 sum to n, and on every rank
\* padded_sharded_param_size is the size of chunk 0, the same on all ranks,
\* with the sharded dim-0 size no larger than the padded one.
C16_ShardSizes ==
    Constructed =>
        /\ sum_dim0(ShardRanks) = cfg.size[1]
        /\ \A r \in ShardRanks :
              /\ padded_sharded_param_size(cfg.size, rank_mesh_info(r))
                    = chunked_size(cfg.size, cfg.mesh_info.shard_mesh_size, 0)
              /\ sharded_size(cfg.size, rank_mesh_info(r))[1]
                    <= padded_sharded_param_size(cfg.size, rank_mesh_info(r))[1]
              /\ Tail(sharded_size(cfg.size, rank_mesh_info(r))) = Tail(cfg.size)

\* W = 3 and size [10, 4]: rank 2 has sharded size [2, 4] and padded size
\* [4, 4].
C16_Witness ==
    /\ Constructed
    /\ cfg.size = <<10, 4>>
    /\ cfg.mesh_info.shard_mesh_size = 3 /\ cfg.mesh_info.shard_mesh_rank = 2
    /\ sharded_size(cfg.size, cfg.mesh_info) = <<2, 4>>
    /\ padded_sharded_param_size(cfg.size, cfg.mesh_info) = <<4, 4>>

\* C17, as claimed: every rank other than rank W-1 has the dim-0 size
\* ceil(n / W).
C17_AllButLastEqual ==
    Constructed =>
        \A r \in ShardRanks \ {cfg.mesh_info.shard_mesh_size - 1} :
            sharded_size(cfg.size, rank_mesh_info(r))[1]
                = ceil_div(cfg.size[1], cfg.mesh_info.shard_mesh_size)

\* C17, amended: with c = ceil(n / W), the ranks whose chunk lies within the
\* n rows have the dim-0 size c, at most one rank has a shorter chunk that is
\* not empty, and every rank after a shorter chunk has dim-0 size 0.
C17_FullThenPartialThenEmpty ==
    Constructed =>
        LET n == cfg.size[1]
            W == cfg.mesh_info.shard_mesh_size
            c == ceil_div(n, W)
            dim0(r) == sharded_size(cfg.size, rank_mesh_info(r))[1]
        IN  /\ \A r \in ShardRanks :
                  /\ (r + 1) * c <= n => dim0(r) = c
                  /\ (r * c < n /\ n < (r + 1) * c) => dim0(r) = n - r * c
                  /\ n <= r * c => dim0(r) = 0
            /\ Cardinality({r \in ShardRanks : 0 < dim0(r) /\ dim0(r) < c}) <= 1
            /\ \A r, q \in ShardRanks : (r < q /\ dim0(r) < c) => dim0(q) = 0

\* One row over three ranks: a parameter was constructed on rank 1, which is
\* not the last rank and holds an empty chunk, the chunk size being 1.
C17_Witness ==
    /\ Constructed
    /\ cfg.size[1] = 1
    /\ cfg.mesh_info.shard_mesh_size = 3 /\ cfg.mesh_info.shard_mesh_rank = 1
    /\ sharded_size(cfg.size, cfg.mesh_info)[1] = 0
    /\ padded_sharded_param_size(cfg.size, cfg.mesh_info)[1] = 1

\* C14: the shard is what the construction left, in every state the
\* operations reach and so after every cycle SHARDED -> (all-gather outputs
\* initialised, allocated and filled, init_unsharded_param) -> to_unsharded
\* -> to_sharded, however often repeated: _sharded_param_data has the padded
\* shard's numel, its storage is resident and holds the values of the padded
\* shard, and in state SHARDED the modules hold sharded_param.
C14_ShardUnchanged ==
    /\ _sharded_param_data = padded_sharded_param_view(_orig_size, cfg.mesh_info)
    /\ storage[_sharded_param_data.stor] =
           _sharded_param_data.numel * _sharded_param_data.itemsize
    /\ memory[_sharded_param_data.stor] =
           padded_sharded_param(_orig_size, cfg.mesh_info)
    /\ sharded_state = "SHARDED" =>
           \A m \in Modules : module_params[m] = sharded_param

\* to_sharded has closed a cycle that went through UNSHARDED, on a rank whose
\* padded shard holds elements of the parameter and padding.
C14_Witness ==
    /\ last = [op |-> "to_sharded", result |-> "ok", from |-> "UNSHARDED"]
    /\ cfg.ext = None
    /\ _unsharded_param # Unset
    /\ sharded_size(_orig_size, cfg.mesh_info)[1] > 0
    /\ sharded_size(_orig_size, cfg.mesh_info)[1] <
           padded_sharded_param_size(_orig_size, cfg.mesh_info)[1]
    /\ cfg.mesh_info.shard_mesh_rank > 0

\* The post-forward replica, when the attribute holds one: its descriptor,
\* the size of its storage and the values in it.
replica_held == _sharded_post_forward_param_data \notin {Unset, None}

replica ==
    [data |-> _sharded_post_forward_param_data,
     bytes |-> storage[_sharded_post_forward_param_data.stor],
     values |-> memory[_sharded_post_forward_param_data.stor]]

\* C20: a to_sharded_post_forward that returns leaves a replica on a storage
\* that is none of the all-gather outputs' or inner tensors', resident at its
\* full size after the free inside the call, holding the values this rank's
\* slice of the all-gather output had before the call; and a replica that is
\* held keeps its descriptor, its storage size and its values through every
\* step (alloc, all-gather, free, ...) except a to_unsharded that leaves
\* SHARDED_POST_FORWARD, which releases it, and a to_sharded_post_forward
\* that leaves UNSHARDED, which takes a new one.
C20_ReplicaIsOwnCopy ==
    [][/\ (last'.op = "to_sharded_post_forward" /\ last'.result = "ok") =>
            LET out == all_gather_outputs[1]
                data == _sharded_post_forward_param_data'
            IN  /\ \A t \in Range(unsharded_buffers') : t.stor # data.stor
                /\ storage'[data.stor] = data.numel * data.itemsize
                /\ data.numel =
                       out.numel \div cfg.post_forward_mesh_info.shard_mesh_size
                /\ memory'[data.stor] =
                       narrowed(memory[out.stor],
                           data.numel * cfg.post_forward_mesh_info.shard_mesh_rank,
                           data.numel)
       /\ replica_held =>
            \/ replica_held' /\ replica' = replica
            \/ last'.op = "to_unsharded" /\ last'.from = "SHARDED_POST_FORWARD"
            \/ last'.op = "to_sharded_post_forward" /\ last'.from = "UNSHARDED"]_vars

\* In SHARDED_POST_FORWARD the all-gather outputs were allocated and filled
\* again while the replica, on a rank other than 0, held its slice of the
\* parameter's elements in a storage of its own.
C20_Witness ==
    /\ last = [op |-> "all_gather", result |-> "ok", from |-> "SHARDED_POST_FORWARD"]
    /\ replica_held
    /\ cfg.post_forward_mesh_info.shard_mesh_rank > 0
    /\ replica.data.numel >= 2
    /\ replica.bytes = replica.data.numel * replica.data.itemsize
    /\ \A i \in 1 .. replica.data.numel : replica.values[i] >= 1
    /\ replica.data.stor # all_gather_outputs[1].stor

\* The padded flattened shard of rank r, and the concatenation of the padded
\* flattened shards of all ranks, ordered by rank.
padded_shard_of(r) == padded_sharded_param(_orig_size, rank_mesh_info(r))

all_padded_shards ==
    rank_major([r \in ShardRanks |-> padded_shard_of(r)],
               _sharded_param_data.numel, cfg.mesh_info.shard_mesh_size)

\* C18: for a plain tensor, whatever the shard count and the dim-0 size: when
\* to_unsharded has returned and the one all-gather output holds the
\* concatenation, ordered by rank, of the padded flattened shards of all
\* ranks, the modules hold the unsharded parameter and this view (original
\* size, contiguous strides, storage offset 0) has the elements of the
\* original parameter, element for element.
C18_UnshardedViewIsOriginal ==
    (/\ last.op = "to_unsharded" /\ last.result = "ok"
     /\ cfg.ext = None
     /\ Len(all_gather_outputs) = 1
     /\ memory[all_gather_outputs[1].stor] = all_padded_shards) =>
        /\ sharded_state = "UNSHARDED"
        /\ \A m \in Modules : module_params[m] = _unsharded_param
        /\ unsharded_param_values = param_data(_orig_size)

\* to_unsharded has returned on a rank other than 0 for a parameter of two
\* columns whose dim-0 size does not divide over the shard mesh, the
\* all-gather output holding the shards of all ranks and padding.
C18_Witness ==
    /\ last.op = "to_unsharded" /\ last.result = "ok"
    /\ cfg.ext = None
    /\ Len(all_gather_outputs) = 1
    /\ memory[all_gather_outputs[1].stor] = all_padded_shards
    /\ _orig_size[2] = 2
    /\ _orig_size[1] % cfg.mesh_info.shard_mesh_size # 0
    /\ _orig_size[1] > cfg.mesh_info.shard_mesh_size
    /\ cfg.mesh_info.shard_mesh_rank > 0
    /\ Len(all_padded_shards) > orig_numel

\* C21: a to_sharded_post_forward that returns, called while the all-gather
\* output holds the padded shards of all ranks, leaves a post-forward view
\* (size sharded_post_forward_size, contiguous strides) that holds the rows
\* of this post-forward rank's chunk of the original, unpadded parameter,
\* whatever the dim-0 size and the shard count of the main mesh.
C21_PostForwardViewIsChunk ==
    [][(/\ last'.op = "to_sharded_post_forward" /\ last'.result = "ok"
        /\ cfg.ext = None
        /\ memory[all_gather_outputs[1].stor] = all_padded_shards) =>
            sharded_post_forward_values' =
                param_chunk(_orig_size,
                            cfg.post_forward_mesh_info.shard_mesh_size,
                            cfg.post_forward_mesh_info.shard_mesh_rank)]_vars

\* C22: an init_unsharded_param called when the unsharded parameter exists
\* changes nothing when the shard's class has no fsdp_post_all_gather; when
\* it has one, every inner tensor is allocated at its full size before the
\* hook runs in place, so that after the call every inner tensor is resident
\* at numel * itemsize, no other storage was resized, the unsharded
\* parameter, the inner tensors, the all-gather outputs, the state and the
\* binding are the same objects as before, and when the hook returned the
\* extension data are cleared.
C22_LaterCallsInPlace ==
    [][(last'.op = "init_unsharded_param" /\ hasattr_unsharded_param) =>
          /\ UNCHANGED <<_sharded_param_data, sharded_state, module_params,
                         all_gather_outputs, _unsharded_inner_tensors,
                         _unsharded_param, _sharded_post_forward_param,
                         _sharded_post_forward_param_data>>
          /\ IF ~has_fsdp_post_all_gather
             THEN /\ last'.result = "ok"
                  /\ UNCHANGED <<_extensions_data, storage, memory>>
             ELSE /\ \A t \in Range(_unsharded_inner_tensors) :
                        storage'[t.stor] = t.numel * t.itemsize
                  /\ \A st \in DOMAIN storage :
                        (\A t \in Range(_unsharded_inner_tensors) : t.stor # st)
                            => storage'[st] = storage[st]
                  /\ last'.result = "ok" =>
                        _extensions_data' = ExtensionsData]_vars

\* init_unsharded_param has returned from a call in state UNSHARDED, so after
\* the first: the hook ran in place on an inner tensor of its own that
\* to_sharded had freed and the call has allocated again.
C22_Witness ==
    /\ last = [op |-> "init_unsharded_param", result |-> "ok", from |-> "UNSHARDED"]
    /\ has_fsdp_post_all_gather
    /\ cfg.ext.inner = "own"
    /\ Len(_unsharded_inner_tensors) = 1
    /\ _unsharded_inner_tensors[1].numel > 0
    /\ storage[_unsharded_inner_tensors[1].stor] =
           _unsharded_inner_tensors[1].numel * _unsharded_inner_tensors[1].itemsize
    /\ _extensions_data = ExtensionsData

\* The contract violations of to_sharded_post_forward (a DTensor parameter,
\* another state than UNSHARDED, an all-gather output that does not divide
\* over the post-forward shard mesh) and of all_gather_inputs (state
\* UNSHARDED).
ContractViolation(call) ==
    \/ /\ call.op = "to_sharded_post_forward"
       /\ call.result \in {"NotImplementedError", "AssertionError: state",
                            "AssertionError: divisible"}
    \/ /\ call.op = "all_gather_inputs"
       /\ call.result = "AssertionError: state"

\* C23: a to_sharded_post_forward or an all_gather_inputs that fails with
\* one of these contract violations leaves sharded_state, the module
\* binding, the all-gather outputs and the sizes of their storages, the
\* post-forward replica and the extension data as they were before the call.
C23_FailedCallChangesNothing ==
    [][ContractViolation(last') =>
          UNCHANGED <<sharded_state, module_params, all_gather_outputs,
                      _unsharded_inner_tensors, _unsharded_param,
                      _sharded_post_forward_param,
                      _sharded_post_forward_param_data, _extensions_data,
                      storage, memory>>]_vars

\* to_sharded_post_forward has failed in state UNSHARDED on an allocated
\* all-gather output whose numel does not divide over the post-forward
\* shard mesh.
C23_Witness ==
    /\ last = [op |-> "to_sharded_post_forward",
               result |-> "AssertionError: divisible", from |-> "UNSHARDED"]
    /\ sharded_state = "UNSHARDED"
    /\ Len(all_gather_outputs) = 1
    /\ all_gather_outputs[1].numel % cfg.post_forward_mesh_info.shard_mesh_size # 0
    /\ storage[all_gather_outputs[1].stor] =
           all_gather_outputs[1].numel * all_gather_outputs[1].itemsize
    /\ module_params[0] = _unsharded_param

====
